---- MODULE Spec2Model ----
(***************************************************************************)
(* Model of the bounded TTL cache of src/src/main.rs (struct Cache and its *)
(* methods new, remove_order, get, set, delete).                           *)
(*                                                                         *)
(* Program state:  data (HashMap<K, CacheEntry<V>>), order (VecDeque<K>),  *)
(* max_size (usize), and the clock read by Instant::now().                 *)
(* History variables (not program state, written only to state the         *)
(* properties): last, touch, written, deleted, scenario.                   *)
(*                                                                         *)
(* Every call is one atomic step: the methods take &mut self, so no two    *)
(* calls on one cache overlap.  Spec runs the calls on a cache of positive *)
(* capacity, SpecLogged does the same keeping the history of writes, and   *)
(* SpecZero runs them on a cache of capacity 0.                            *)
(*                                                                         *)
(* SpecTransport models main, set_handler and delete_handler: concurrent   *)
(* handlers share the cache behind Arc<RwLock<..>>, and inside a handler   *)
(* the statements of set and delete are separate steps (lock, pc, req).    *)
(***************************************************************************)
EXTENDS Integers, Sequences, FiniteSets, TLC

\* ------------------------------------------------------------------ bounds
NumKeys == 3
MaxCapacity == 2
MaxOrder == 3
MaxTime == 1
MaxTtl == 2
NumHandlers == 2

\* Cache::new(3) in main
MainCapacity == 3
\* Duration::from_secs(5) in set_handler
HandlerTtl == 5

Keys == 1..NumKeys
Values == {"v1", "v2"}
Ttls == 0..MaxTtl
Absent == "absent"

\* concurrent requests, and the bodies they carry (SetRequestBody,
\* DeleteRequestBody)
Handlers == 1..NumHandlers
Bodies == [op : {"set"}, key : Keys, value : Values]
              \cup [op : {"delete"}, key : Keys]
NoBody == [op |-> "none"]

VARIABLES
    max_size,   \* Cache.max_size
    data,       \* Cache.data : key -> [value, expiration]
    order,      \* Cache.order : sequence of keys, front first
    now,        \* the instant Instant::now() returns
    last,       \* history: the call made by the latest step and what it returned
                \* (a Get also records the Set of the same key, if any, that
                \* the step before it made; a Delete records whether the entry
                \* it found had expired); Tick resets it
    touch,      \* history: the keys of data, least recently touched first
    written,    \* history (SpecLogged only): per key, the arguments and time of
                \* its latest Set
    deleted,    \* history (Spec only): keys deleted and not Set again since
    scenario,   \* history: progress of the run "fill an empty cache with distinct
                \* keys, then touch the oldest key once"
    lock,       \* RwLock: the handlers holding the write guard
    pc,         \* per handler, the statement it is about to execute
    req         \* per handler, the body of its request

vars == <<max_size, data, order, now, last, touch, written, deleted, scenario,
          lock, pc, req>>

\* the cache's own state, its histories, the transport's state
histVars == <<last, touch, written, deleted, scenario>>
transportVars == <<lock, pc, req>>

\* ----------------------------------------------------------------- helpers
Range(s) == {s[i] : i \in 1..Len(s)}

Restrict(s, S) == SelectSeq(s, LAMBDA x : x \in S)

\* HashMap::remove
MapRemove(d, k) == [x \in (DOMAIN d) \ {k} |-> d[x]]

\* HashMap::insert (replaces the entry of an existing key)
MapInsert(d, k, e) == [x \in (DOMAIN d) \cup {k} |-> IF x = k THEN e ELSE d[x]]

\* VecDeque::iter().position(|x| x == key): index of the first occurrence
Position(ord, k) == CHOOSE i \in 1..Len(ord) :
                        ord[i] = k /\ \A j \in 1..(i - 1) : ord[j] # k

\* remove_order: removes the FIRST occurrence of key from order, if any
RemoveOrder(ord, k) ==
    IF k \in Range(ord)
    THEN SubSeq(ord, 1, Position(ord, k) - 1)
             \o SubSeq(ord, Position(ord, k) + 1, Len(ord))
    ELSE ord

\* faulty variant: an entry still counts as live at the instant of its expiration
IsExpiredStrict(e, t) == e.expiration < t

\* entry.expiration <= Instant::now()
IsExpired(e, t) == e.expiration <= t

\* faulty variant: the ttl is dropped
ExpirationNoTtl(t, ttl) == t

\* Instant::now() + ttl
Expiration(t, ttl) == t + ttl

\* faulty variant: delete drops the removed value
DeleteStateReturnsNone(d, ord, k) ==
    [data  |-> MapRemove(d, k),
     order |-> RemoveOrder(ord, k),
     ret   |-> Absent]

\* faulty variant: delete forgets data.remove
DeleteStateOrderOnly(d, ord, k) ==
    [data  |-> d,
     order |-> RemoveOrder(ord, k),
     ret   |-> IF k \in DOMAIN d THEN d[k].value ELSE Absent]

\* delete: remove_order(key); data.remove(key).map(|entry| entry.value)
DeleteState(d, ord, k) ==
    [data  |-> MapRemove(d, k),
     order |-> RemoveOrder(ord, k),
     ret   |-> IF k \in DOMAIN d THEN d[k].value ELSE Absent]

\* faulty variant: a successful get moves the key to the front of order
GetStatePushFront(d, ord, k, t) ==
    IF k \in DOMAIN d
    THEN IF IsExpired(d[k], t)
         THEN [data  |-> DeleteState(d, ord, k).data,
               order |-> DeleteState(d, ord, k).order,
               ret   |-> Absent]
         ELSE [data  |-> d,
               order |-> <<k>> \o RemoveOrder(ord, k),
               ret   |-> d[k].value]
    ELSE [data |-> d, order |-> ord, ret |-> Absent]

\* faulty variant: a successful get renews the expiration of the entry
GetStateRefresh(d, ord, k, t) ==
    IF k \in DOMAIN d
    THEN IF IsExpired(d[k], t)
         THEN [data  |-> DeleteState(d, ord, k).data,
               order |-> DeleteState(d, ord, k).order,
               ret   |-> Absent]
         ELSE [data  |-> [d EXCEPT ![k].expiration = t + 1],
               order |-> Append(RemoveOrder(ord, k), k),
               ret   |-> d[k].value]
    ELSE [data |-> d, order |-> ord, ret |-> Absent]

\* faulty variant: a get of a missing key calls remove_order all the same
GetStateMissCleans(d, ord, k, t) ==
    IF k \in DOMAIN d
    THEN IF IsExpired(d[k], t)
         THEN [data  |-> DeleteState(d, ord, k).data,
               order |-> DeleteState(d, ord, k).order,
               ret   |-> Absent]
         ELSE [data  |-> d,
               order |-> Append(RemoveOrder(ord, k), k),
               ret   |-> d[k].value]
    ELSE [data |-> d, order |-> RemoveOrder(ord, k), ret |-> Absent]

\* faulty variant: a successful get does not move the key to the back of order
GetStateNoPromote(d, ord, k, t) ==
    IF k \in DOMAIN d
    THEN IF IsExpired(d[k], t)
         THEN [data  |-> DeleteState(d, ord, k).data,
               order |-> DeleteState(d, ord, k).order,
               ret   |-> Absent]
         ELSE [data |-> d, order |-> ord, ret |-> d[k].value]
    ELSE [data |-> d, order |-> ord, ret |-> Absent]

\* get: a missing key returns None; an expired entry is deleted and None is
\* returned; a live entry is moved to the back of order and its value returned
GetState(d, ord, k, t) ==
    IF k \in DOMAIN d
    THEN IF IsExpired(d[k], t)
         THEN [data  |-> DeleteState(d, ord, k).data,
               order |-> DeleteState(d, ord, k).order,
               ret   |-> Absent]
         ELSE [data  |-> d,
               order |-> Append(RemoveOrder(ord, k), k),
               ret   |-> d[k].value]
    ELSE [data |-> d, order |-> ord, ret |-> Absent]

\* faulty variant: set evicts one insert too early (len + 1 >= max_size)
SetStateEvictEarly(d, ord, cap, k, v, exp) ==
    LET pop == Cardinality(DOMAIN d) + 1 >= cap /\ ord # <<>>
        d1  == IF pop THEN MapRemove(d, Head(ord)) ELSE d
        o1  == IF pop THEN Tail(ord) ELSE ord
    IN  [data    |-> MapInsert(d1, k, [value |-> v, expiration |-> exp]),
         order   |-> Append(o1, k),
         evicted |-> IF pop THEN {Head(ord)} \cap DOMAIN d ELSE {}]

\* faulty variant: set evicts the front of order whatever data.len() is
SetStateAlwaysEvict(d, ord, cap, k, v, exp) ==
    LET pop == ord # <<>>
        d1  == IF pop THEN MapRemove(d, Head(ord)) ELSE d
        o1  == IF pop THEN Tail(ord) ELSE ord
    IN  [data    |-> MapInsert(d1, k, [value |-> v, expiration |-> exp]),
         order   |-> Append(o1, k),
         evicted |-> IF pop THEN {Head(ord)} \cap DOMAIN d ELSE {}]

\* faulty variant: set evicts the back of order (pop_back) instead of the front
SetStatePopBack(d, ord, cap, k, v, exp) ==
    LET pop == Cardinality(DOMAIN d) = cap /\ ord # <<>>
        d1  == IF pop THEN MapRemove(d, ord[Len(ord)]) ELSE d
        o1  == IF pop THEN SubSeq(ord, 1, Len(ord) - 1) ELSE ord
    IN  [data    |-> MapInsert(d1, k, [value |-> v, expiration |-> exp]),
         order   |-> Append(o1, k),
         evicted |-> IF pop THEN {ord[Len(ord)]} \cap DOMAIN d ELSE {}]

\* set: evict the front of order when data.len() == max_size, then insert
\* and push_back (no remove_order of the key's earlier position).
SetState(d, ord, cap, k, v, exp) ==
    LET pop == Cardinality(DOMAIN d) = cap /\ ord # <<>>
        d1  == IF pop THEN MapRemove(d, Head(ord)) ELSE d
        o1  == IF pop THEN Tail(ord) ELSE ord
    IN  [data    |-> MapInsert(d1, k, [value |-> v, expiration |-> exp]),
         order   |-> Append(o1, k),
         evicted |-> IF pop THEN {Head(ord)} \cap DOMAIN d ELSE {}]

\* ------------------------------------------------------------------- state
\* scenario.phase:
\*   "fill"        only Sets of distinct new keys so far, none of them evicting;
\*                 keys/vals are the keys and values inserted, in order
\*   "promoted"    the cache was filled to max_size, then Get(keys[1]) succeeded
\*   "overwritten" the cache was filled to max_size, then Set(keys[1], vals[1], _)
\*   "refilled"    after "promoted", one more distinct key was Set (last of keys)
\*   "done"        anything else happened
Done == [phase |-> "done", keys |-> <<>>, vals |-> <<>>]

\* Cache::new: empty data and order
Empty ==
    /\ data = <<>>
    /\ order = <<>>
    /\ now = 0
    /\ last = [op |-> "new"]
    /\ touch = <<>>
    /\ written = {}
    /\ deleted = {}
    /\ scenario = [phase |-> "fill", keys |-> <<>>, vals |-> <<>>]
    /\ lock = {}
    /\ pc = [h \in Handlers |-> "idle"]
    /\ req = [h \in Handlers |-> NoBody]

\* Cache::new(max_size) with a positive capacity (main constructs Cache::new(3))
Init == max_size \in 1..MaxCapacity /\ Empty

\* Cache::new(0)
InitZero == max_size = 0 /\ Empty

\* faulty variant: a background sweep reclaims expired entries as time passes
TickSweep ==
    /\ now < MaxTime
    /\ now' = now + 1
    /\ last' = [op |-> "tick"]
    /\ data' = [k \in {x \in DOMAIN data : ~IsExpired(data[x], now + 1)}
                   |-> data[k]]
    /\ order' = Restrict(order, DOMAIN data')
    /\ touch' = Restrict(touch, DOMAIN data')
    /\ UNCHANGED <<max_size, written, deleted, scenario, transportVars>>

\* the clock advances between calls
Tick ==
    /\ now < MaxTime
    /\ now' = now + 1
    /\ last' = [op |-> "tick"]
    /\ UNCHANGED <<max_size, data, order, touch, written, deleted, scenario,
                   transportVars>>

Get(k) ==
    LET r == GetState(data, order, k, now) IN
    /\ data' = r.data
    /\ order' = r.order
    /\ last' = [op |-> "get", key |-> k, ret |-> r.ret,
                prev |-> IF last.op = "set" /\ last.key = k
                         THEN last ELSE [op |-> "other"]]
    /\ touch' = Restrict(IF r.ret # Absent
                         THEN Append(Restrict(touch, Keys \ {k}), k)
                         ELSE touch, DOMAIN r.data)
    /\ scenario' = IF /\ scenario.phase = "fill"
                      /\ max_size >= 1
                      /\ Len(scenario.keys) = max_size
                      /\ k = scenario.keys[1]
                      /\ r.ret # Absent
                   THEN [scenario EXCEPT !.phase = "promoted"]
                   ELSE Done
    /\ UNCHANGED <<max_size, now, written, deleted, transportVars>>

\* set, without the histories `written` and `deleted`
SetOp(k, v, ttl) ==
    LET r == SetState(data, order, max_size, k, v, Expiration(now, ttl)) IN
    /\ Len(r.order) <= MaxOrder
    /\ data' = r.data
    /\ order' = r.order
    /\ last' = [op |-> "set", key |-> k, value |-> v, ttl |-> ttl]
    /\ touch' = Restrict(Append(Restrict(touch, Keys \ {k}), k), DOMAIN r.data)
    /\ scenario' =
         IF scenario.phase = "fill" /\ k \notin Range(scenario.keys)
                                    /\ Len(scenario.keys) < max_size
         THEN [scenario EXCEPT !.keys = Append(@, k), !.vals = Append(@, v)]
         ELSE IF scenario.phase = "fill" /\ max_size >= 1
                                         /\ Len(scenario.keys) = max_size
                                         /\ k = scenario.keys[1]
         THEN [scenario EXCEPT !.phase = "overwritten", !.vals[1] = v]
         ELSE IF scenario.phase = "promoted" /\ k \notin Range(scenario.keys)
         THEN [phase |-> "refilled", keys |-> Append(scenario.keys, k),
               vals |-> Append(scenario.vals, v)]
         ELSE Done
    /\ UNCHANGED <<max_size, now, transportVars>>

\* delete, without the histories `written` and `deleted`
DeleteOp(k) ==
    LET r == DeleteState(data, order, k) IN
    /\ data' = r.data
    /\ order' = r.order
    /\ last' = [op |-> "delete", key |-> k, ret |-> r.ret,
                stale |-> k \in DOMAIN data /\ IsExpired(data[k], now)]
    /\ touch' = Restrict(touch, DOMAIN r.data)
    /\ scenario' = Done
    /\ UNCHANGED <<max_size, now, transportVars>>

\* The calls, keeping in `deleted` the keys deleted and not Set again since.
Set(k, v, ttl) ==
    /\ SetOp(k, v, ttl)
    /\ deleted' = deleted \ {k}
    /\ UNCHANGED written

Delete(k) ==
    /\ DeleteOp(k)
    /\ deleted' = deleted \cup {k}
    /\ UNCHANGED written

\* The same calls, keeping in `written` the latest Set of every key that was
\* not evicted, deleted or overwritten since.
SetLogged(k, v, ttl) ==
    /\ SetOp(k, v, ttl)
    /\ written' =
         {w \in written :
             /\ w.key # k
             /\ w.key \notin SetState(data, order, max_size, k, v,
                                      Expiration(now, ttl)).evicted}
           \cup {[key |-> k, value |-> v, at |-> now, ttl |-> ttl]}
    /\ UNCHANGED deleted

DeleteLogged(k) ==
    /\ DeleteOp(k)
    /\ written' = {w \in written : w.key # k}
    /\ UNCHANGED deleted

Next ==
    \/ Tick
    \/ \E k \in Keys : Get(k)
    \/ \E k \in Keys, v \in Values, ttl \in Ttls : Set(k, v, ttl)
    \/ \E k \in Keys : Delete(k)

Spec == Init /\ [][Next]_vars

\* The same calls on a cache of capacity 0
SpecZero == InitZero /\ [][Next]_vars

NextLogged ==
    \/ Tick
    \/ \E k \in Keys : Get(k)
    \/ \E k \in Keys, v \in Values, ttl \in Ttls : SetLogged(k, v, ttl)
    \/ \E k \in Keys : DeleteLogged(k)

\* The same program, keeping the history of writes instead of `deleted`
SpecLogged == Init /\ [][NextLogged]_vars

\* ---------------------------------------------------------------- transport
\* main: the shared cache is Cache::new(3)
InitTransport == max_size = MainCapacity /\ Empty

\* statements of set and delete, executed while the write guard is held
InCache == {"evict", "insert", "push", "unorder", "remove"}

\* warp routes a request to set_handler or delete_handler with its body
Receive(h, b) ==
    /\ pc[h] = "idle"
    /\ pc' = [pc EXCEPT ![h] = "lock"]
    /\ req' = [req EXCEPT ![h] = b]
    /\ UNCHANGED <<max_size, data, order, now, histVars, lock>>

\* faulty variant: the guard is taken without waiting for the lock to be free
AcquireNoWait(h) ==
    /\ pc[h] = "lock"
    /\ lock' = lock \cup {h}
    /\ pc' = [pc EXCEPT ![h] = IF req[h].op = "set" THEN "evict" ELSE "unorder"]
    /\ UNCHANGED <<max_size, data, order, now, histVars, req>>

\* cache.write().unwrap(): blocks until no other guard is held
Acquire(h) ==
    /\ pc[h] = "lock"
    /\ lock = {}
    /\ lock' = lock \cup {h}
    /\ pc' = [pc EXCEPT ![h] = IF req[h].op = "set" THEN "evict" ELSE "unorder"]
    /\ UNCHANGED <<max_size, data, order, now, histVars, req>>

\* set: if data.len() == max_size, pop_front and data.remove(old_key)
SetEvict(h) ==
    /\ pc[h] = "evict"
    /\ LET pop == Cardinality(DOMAIN data) = max_size /\ order # <<>> IN
         /\ data' = IF pop THEN MapRemove(data, Head(order)) ELSE data
         /\ order' = IF pop THEN Tail(order) ELSE order
    /\ pc' = [pc EXCEPT ![h] = "insert"]
    /\ UNCHANGED <<max_size, now, histVars, lock, req>>

\* set: data.insert(key, entry) with expiration Instant::now() + 5 s
SetInsert(h) ==
    /\ pc[h] = "insert"
    /\ data' = MapInsert(data, req[h].key,
                         [value |-> req[h].value,
                          expiration |-> Expiration(now, HandlerTtl)])
    /\ pc' = [pc EXCEPT ![h] = "push"]
    /\ UNCHANGED <<max_size, order, now, histVars, lock, req>>

\* set: order.push_back(key)
SetPush(h) ==
    /\ pc[h] = "push"
    /\ order' = Append(order, req[h].key)
    /\ pc' = [pc EXCEPT ![h] = "reply"]
    /\ UNCHANGED <<max_size, data, now, histVars, lock, req>>

\* delete: remove_order(key)
DeleteOrder(h) ==
    /\ pc[h] = "unorder"
    /\ order' = RemoveOrder(order, req[h].key)
    /\ pc' = [pc EXCEPT ![h] = "remove"]
    /\ UNCHANGED <<max_size, data, now, histVars, lock, req>>

\* delete: data.remove(key)
DeleteData(h) ==
    /\ pc[h] = "remove"
    /\ data' = MapRemove(data, req[h].key)
    /\ pc' = [pc EXCEPT ![h] = "reply"]
    /\ UNCHANGED <<max_size, order, now, histVars, lock, req>>

\* the handler returns its reply and the guard is dropped
Release(h) ==
    /\ pc[h] = "reply"
    /\ lock' = lock \ {h}
    /\ pc' = [pc EXCEPT ![h] = "done"]
    /\ UNCHANGED <<max_size, data, order, now, histVars, req>>

NextTransport ==
    \/ Tick
    \/ \E h \in Handlers, b \in Bodies : Receive(h, b)
    \/ \E h \in Handlers : Acquire(h)
    \/ \E h \in Handlers : SetEvict(h)
    \/ \E h \in Handlers : SetInsert(h)
    \/ \E h \in Handlers : SetPush(h)
    \/ \E h \in Handlers : DeleteOrder(h)
    \/ \E h \in Handlers : DeleteData(h)
    \/ \E h \in Handlers : Release(h)

SpecTransport == InitTransport /\ [][NextTransport]_vars

\* The outcome of the requests served one after the other, in the order p, on
\* the cache of main: the values stored and the order of the keys.
ValueMap(d) == [k \in DOMAIN d |-> d[k].value]

HandlerOrders ==
    {p \in [1..NumHandlers -> Handlers] :
        \A i, j \in 1..NumHandlers : i # j => p[i] # p[j]}

RECURSIVE SerialRun(_, _, _)
SerialRun(p, i, c) ==
    IF i > NumHandlers
    THEN c
    ELSE LET b == req[p[i]]
             r == IF b.op = "set"
                  THEN SetState(c.data, c.order, MainCapacity, b.key, b.value,
                                Expiration(now, HandlerTtl))
                  ELSE DeleteState(c.data, c.order, b.key)
         IN  SerialRun(p, i + 1, [data |-> r.data, order |-> r.order])

SerialOutcomes ==
    {[values |-> ValueMap(SerialRun(p, 1, [data |-> <<>>, order |-> <<>>]).data),
      order  |-> SerialRun(p, 1, [data |-> <<>>, order |-> <<>>]).order]
        : p \in HandlerOrders}

\* ------------------------------------------------------------------ claims

\* C1: with capacity >= 1 the number of entries never exceeds the capacity.
\* (Violated: a stale duplicate at the front of order makes the eviction of
\* set remove nothing.)
C1_CapacityBound == max_size >= 1 => Cardinality(DOMAIN data) <= max_size

\* C2: entries and recency agree: every key of order is a key of data, every
\* key of data occurs exactly once in order, and the sizes are equal.
\* (Violated: set pushes the key again without removing its earlier position.)
C2_OrderAgrees ==
    max_size >= 1 =>
        /\ Range(order) \subseteq DOMAIN data
        /\ \A k \in DOMAIN data :
               Cardinality({i \in 1..Len(order) : order[i] = k}) = 1
        /\ Cardinality(DOMAIN data) = Len(order)

\* C3: a Set that removes a key from data by eviction removes the least
\* recently touched key among those present before the call.
C3_EvictsLeastRecent ==
    [][(last'.op = "set" /\ max_size >= 1
            /\ (DOMAIN data) \ (DOMAIN data') # {})
        => (DOMAIN data) \ (DOMAIN data') = {Head(touch)}]_vars

\* C4 as claimed: after filling a cache of capacity n >= 2 with k1..kn and then
\* Set(k1, newValue, _), k2 is absent, k1 maps to newValue, k3..kn are present.
C4_OverwriteEvictsSecond ==
    (scenario.phase = "overwritten" /\ max_size >= 2) =>
        /\ scenario.keys[2] \notin DOMAIN data
        /\ scenario.keys[1] \in DOMAIN data
        /\ data[scenario.keys[1]].value = scenario.vals[1]
        /\ \A i \in 3..Len(scenario.keys) : scenario.keys[i] \in DOMAIN data

\* C4 amended: after filling a cache of capacity n >= 2 with k1..kn and then
\* Set(k1, newValue, _), no key is evicted: k1 maps to newValue, k2..kn are all
\* still present with their values, and recency is k2..kn followed by k1.
C4_OverwriteOldestKeepsAll ==
    (scenario.phase = "overwritten" /\ max_size >= 2) =>
        /\ DOMAIN data = Range(scenario.keys)
        /\ \A i \in 1..Len(scenario.keys) :
               data[scenario.keys[i]].value = scenario.vals[i]
        /\ order = Append(Tail(scenario.keys), scenario.keys[1])

C4_Witness ==
    /\ scenario.phase = "overwritten"
    /\ max_size >= 2
    /\ last.op = "set"
    /\ Len(scenario.keys) = max_size

\* C5: after filling a cache of capacity n >= 2 with k1..kn, Get(k1) and a Set
\* of one more distinct key, and while no entry has expired, Get(k2) is absent
\* and Get returns the values of k1, k3..kn and of the new key.
C5_PromotedSurvives ==
    (scenario.phase = "refilled" /\ max_size >= 2
        /\ \A k \in DOMAIN data : ~IsExpired(data[k], now)) =>
        \A i \in 1..Len(scenario.keys) :
            GetState(data, order, scenario.keys[i], now).ret =
                IF i = 2 THEN Absent ELSE scenario.vals[i]

C5_Witness ==
    /\ scenario.phase = "refilled"
    /\ max_size >= 2
    /\ Len(scenario.keys) = max_size + 1
    /\ last.op = "set"
    /\ \A k \in DOMAIN data : ~IsExpired(data[k], now)

\* C6: a Get(k) made at time `now`, when the latest Set(k, v, d) was made at
\* time t and k was not evicted, deleted or overwritten since, returns v if
\* now < t + d and absent if now >= t + d.
C6_TtlCorrect ==
    \A w \in written :
        (last.op = "get" /\ last.key = w.key) =>
            last.ret = IF now < w.at + w.ttl THEN w.value ELSE Absent

C6_Witness ==
    \E w \in written :
        /\ last.op = "get"
        /\ last.key = w.key
        /\ w.ttl > 0
        /\ now = w.at + w.ttl
        /\ last.ret = Absent

\* C7: a Get(k) that immediately follows Set(k, v, d) with d > 0, no time
\* having elapsed, returns v.
C7_RoundTrip ==
    (last.op = "get" /\ last.prev.op = "set" /\ last.prev.ttl > 0) =>
        last.ret = last.prev.value

C7_Witness ==
    /\ last.op = "get"
    /\ last.prev.op = "set"
    /\ last.prev.ttl > 0
    /\ max_size >= 1
    /\ Cardinality(DOMAIN data) = max_size
    /\ last.ret = last.prev.value

\* C8: a Get(k) made after Delete(k) and before any later Set(k, ...) returns
\* absent.
C8_DeletedStaysAbsent ==
    (last.op = "get" /\ last.key \in deleted) => last.ret = Absent

C8_Witness ==
    /\ last.op = "get"
    /\ last.key \in deleted
    /\ last.ret = Absent
    /\ data # <<>>

\* C9: Delete(k) of a key with no entry returns absent and changes neither
\* data nor order.
C9_DeleteAbsentNoChange ==
    [][(max_size >= 1 /\ last'.op = "delete" /\ last'.key \notin DOMAIN data)
        => (last'.ret = Absent /\ data' = data /\ order' = order)]_vars

\* C10: Get(k) of an entry whose expiration is at or before the current time
\* returns absent and leaves k in neither data nor order.
C10_ExpiredGetDestroys ==
    [][(max_size >= 1 /\ last'.op = "get" /\ last'.key \in DOMAIN data
            /\ data[last'.key].expiration <= now)
        => (/\ last'.ret = Absent
            /\ last'.key \notin DOMAIN data'
            /\ last'.key \notin Range(order'))]_vars

\* C11: Delete(k) removes the entry of k and returns the value most recently
\* stored for k whenever k has an entry, expired or not, and returns absent
\* exactly when k has no entry.
C11_DeleteReturnsStored ==
    [][last'.op = "delete" =>
        /\ last'.key \notin DOMAIN data'
        /\ IF last'.key \in DOMAIN data
           THEN /\ last'.ret # Absent
                /\ \E w \in written : w.key = last'.key /\ last'.ret = w.value
           ELSE last'.ret = Absent]_vars

C11_Witness ==
    /\ last.op = "delete"
    /\ last.stale
    /\ last.ret # Absent
    /\ \A w \in written : w.key # last.key

\* C12: a key that has an entry before a step and none after it was removed by
\* Delete(k), by Get(k) finding its expiration at or before the current time,
\* or by a Set made while data.len() == max_size with k at the front of order;
\* no other step removes an entry.
C12_OnlyThreeWaysOut ==
    [][\A k \in (DOMAIN data) \ (DOMAIN data') :
        \/ last'.op = "delete" /\ last'.key = k
        \/ last'.op = "get" /\ last'.key = k /\ data[k].expiration <= now
        \/ /\ last'.op = "set"
           /\ Cardinality(DOMAIN data) = max_size
           /\ order # <<>>
           /\ Head(order) = k]_vars

C12_Witness ==
    /\ scenario.phase = "refilled"
    /\ last.op = "set"
    /\ scenario.keys[2] \notin DOMAIN data

\* C13: in a cache of capacity 0 the entries do not accumulate: every insert
\* is preceded by an eviction, so at most one entry is ever stored.
\* (Violated: after the first insert data.len() is 1, never 0 again, and set
\* never evicts.)
C13_ZeroCapacityChurns == max_size = 0 => Cardinality(DOMAIN data) <= 1

\* C14: after Set(k, v, ttl), k maps to v, k is the last element of order and
\* k occupies no other position of order.
\* (Violated: set does not remove the earlier position of k.)
C14_SetPlacesKeyOnce ==
    last.op = "set" =>
        /\ last.key \in DOMAIN data
        /\ data[last.key].value = last.value
        /\ order[Len(order)] = last.key
        /\ Cardinality({i \in 1..Len(order) : order[i] = last.key}) = 1

\* C15: Get(k) of a present, unexpired entry returns its value, leaves k last
\* in order, keeps the relative order of the other keys and the length of
\* order, and leaves data unchanged.
C15_GetPromotes ==
    [][(last'.op = "get" /\ last'.key \in DOMAIN data
            /\ ~(data[last'.key].expiration <= now)) =>
        /\ last'.ret = data[last'.key].value
        /\ order'[Len(order')] = last'.key
        /\ Restrict(order', Keys \ {last'.key})
               = Restrict(order, Keys \ {last'.key})
        /\ Len(order') = Len(order)
        /\ data' = data]_vars

C15_Witness ==
    /\ last.op = "get"
    /\ last.ret # Absent
    /\ Len(order) >= 2
    /\ Cardinality(Range(order)) = Len(order)
    /\ order[Len(order)] = last.key

\* C16: the expiration stored for a key that keeps its entry changes only by
\* a Set of that key, which stores the current time + ttl; Get (promotion
\* included) and calls on other keys leave it unchanged.
C16_ExpirationSetOnce ==
    [][/\ \A k \in (DOMAIN data) \cap (DOMAIN data') :
              data'[k].expiration # data[k].expiration
                  => (last'.op = "set" /\ last'.key = k)
       /\ last'.op = "set"
              => data'[last'.key].expiration = now + last'.ttl]_vars

C16_Witness ==
    /\ last.op = "get"
    /\ last.ret # Absent
    /\ now > 0
    /\ data[last.key].expiration > now
    /\ Cardinality(DOMAIN data) >= 2

\* C17: the passage of time changes neither data nor order, and a Set removes
\* from data exactly the front of order when data.len() == max_size, and
\* nothing otherwise, whether or not any entry has expired.
C17_LazyExpiration ==
    [][/\ last'.op = "tick" => (data' = data /\ order' = order)
       /\ last'.op = "set" =>
              \A k \in (DOMAIN data) \ {last'.key} :
                  (k \notin DOMAIN data') <=>
                      /\ Cardinality(DOMAIN data) = max_size
                      /\ order # <<>>
                      /\ Head(order) = k]_vars

C17_Witness ==
    /\ scenario.phase = "refilled"
    /\ last.op = "set"
    /\ scenario.keys[1] \in DOMAIN data
    /\ IsExpired(data[scenario.keys[1]], now)
    /\ scenario.keys[2] \notin DOMAIN data

\* C19: a Set(k, v, ttl) made while data.len() < max_size evicts nothing:
\* every other key keeps its entry (value and expiration), and the relative
\* order of the other keys in order is unchanged.
C19_SetBelowCapacityKeepsAll ==
    [][(last'.op = "set" /\ Cardinality(DOMAIN data) < max_size) =>
        /\ \A k \in (DOMAIN data) \ {last'.key} :
               k \in DOMAIN data' /\ data'[k] = data[k]
        /\ Restrict(order', Keys \ {last'.key})
               = Restrict(order, Keys \ {last'.key})]_vars

C19_Witness ==
    /\ scenario.phase = "fill"
    /\ Len(scenario.keys) >= 2
    /\ last.op = "set"
    /\ Range(scenario.keys) = DOMAIN data

\* C20: Get(k) of a key with no entry returns absent and changes neither data
\* nor order.
C20_GetMissNoChange ==
    [][(last'.op = "get" /\ last'.key \notin DOMAIN data) =>
        /\ last'.ret = Absent
        /\ data' = data
        /\ order' = order]_vars

C20_Witness ==
    /\ last.op = "get"
    /\ last.key \in deleted
    /\ last.ret = Absent
    /\ Len(order) >= 2

\* C18: every statement of cache.set and cache.delete runs while its handler
\* holds the write guard, at most one handler is inside a cache operation at
\* any time, and once every request is served the cache holds what some
\* serial order of the requests produces.
C18_HandlersSerialized ==
    /\ Cardinality(lock) <= 1
    /\ \A h \in Handlers : pc[h] \in InCache => h \in lock
    /\ Cardinality({h \in Handlers : pc[h] \in InCache}) <= 1
    /\ (\A h \in Handlers : pc[h] = "done") =>
           [values |-> ValueMap(data), order |-> order] \in SerialOutcomes

C18_Witness ==
    /\ \A h \in Handlers : pc[h] = "done"
    /\ \E g, h \in Handlers :
           /\ req[g].op = "set"
           /\ req[h].op = "delete"
           /\ req[g].key = req[h].key
    /\ data # <<>>

====
